---- MODULE Spec2Model ----
(***************************************************************************)
(* The htcondor job-aware switch (job_aware_switch.py): a POX component    *)
(* that handles PacketIn events of OpenFlow switches.  For a frame with an *)
(* IPv4 header it asks the htcondor module for the network classad of the  *)
(* job behind the source address, applies the blocked-user policy of the   *)
(* htcondor configuration and otherwise behaves as an L2 learning switch.  *)
(*                                                                         *)
(* Strings the program splits or compares are sequences of atoms (an atom  *)
(* is a run of characters without a comma), a Python None is the empty     *)
(* sequence and a present optional value x is <<x>>.                       *)
(***************************************************************************)
EXTENDS Integers, Sequences, FiniteSets, TLC

\* ------------------------------------------------------------ bounds
MaxPort == 2

Ports == 1..MaxPort
MACs == {"m1", "m2"}
\* nearest-bridge group address, the destination of every LLDP frame
LLDP_MULTICAST == "01-80-c2-00-00-0e"
\* 10.0.0.5 and 10.0.0.9 as 32-bit values: the addresses frames come from
\* and go to
SrcIPs == {167772165}
DstIPs == {167772165, 167772169}
TcpPorts == {80}
BufferIds == {7}
Owners == {<<"zzhang">>, <<"bob">>}

\* a 48-bit datapath id, written as its six octets
EDGE_DPID == <<0, 0, 0, 0, 0, 1>>
CORE_DPID == <<0, 30, 104, 4, 28, 32>>
Dpids == {EDGE_DPID, CORE_DPID}

None == <<>>
Some(x) == <<x>>

\* ------------------------------------------------------------ constants
HARD_TIMEOUT == 10
IDLE_TIMEOUT == 5
core_switch_mac == "00-1e-68-04-1c-20"

\* ethernet types and OpenFlow 1.0 constants of the POX library
LLDP_TYPE == 35020
IP_TYPE == 2048
ARP_TYPE == 2054
OFPP_FLOOD == 65531
OFPP_NONE == 65535
OFP_DEFAULT_PRIORITY == 32768
\* 0xffffffff, as a signed 32-bit value
NO_BUFFER == -1

\* ------------------------------------------------------------ conversions
HexDigits == <<"0", "1", "2", "3", "4", "5", "6", "7",
               "8", "9", "a", "b", "c", "d", "e", "f">>
HexByte(b) == HexDigits[(b \div 16) + 1] \o HexDigits[(b % 16) + 1]

\* dpid_to_str: the six octets in hex, joined by hyphens
dpid_to_str(dpid) ==
    HexByte(dpid[1]) \o "-" \o HexByte(dpid[2]) \o "-" \o HexByte(dpid[3]) \o "-" \o
    HexByte(dpid[4]) \o "-" \o HexByte(dpid[5]) \o "-" \o HexByte(dpid[6])

Octet(ip, i) == (ip \div (256 ^ (3 - i))) % 256
\* str(IPAddr): dotted quad, one atom
ip_to_str(ip) ==
    << ToString(Octet(ip, 0)) \o "." \o ToString(Octet(ip, 1)) \o "." \o
       ToString(Octet(ip, 2)) \o "." \o ToString(Octet(ip, 3)) >>

\* s.split(','): the items between the commas; "".split(',') is ['']
RECURSIVE SplitFrom(_, _, _)
SplitFrom(s, i, cur) ==
    IF i > Len(s) THEN <<cur>>
    ELSE IF s[i] = "," THEN <<cur>> \o SplitFrom(s, i + 1, <<>>)
    ELSE SplitFrom(s, i + 1, Append(cur, s[i]))
split(s) == SplitFrom(s, 1, <<>>)

\* mutant: only the first item of the list is compared
InList_FirstOnly(x, lst) == lst[1] = x

\* x in lst
InList(x, lst) == \E i \in 1..Len(lst) : lst[i] = x

\* ------------------------------------------------------------ inputs
\* values of the list-valued htcondor configuration macros
UserListValues == { <<>>, <<"bob">>, <<"zzhang", ",", "bob">> }
WhiteListValues == { <<>>, <<"10.0.0.9">> }
\* htcondor.param[key]: the value when the macro is defined, None when it
\* is not (the lookup then raises KeyError)
ParamValues(key) ==
    {None} \cup { Some(v) : v \in (IF key = "WHITE_LIST_IP" THEN WhiteListValues
                                                           ELSE UserListValues) }

\* parsed frames: LLDP frames go to the LLDP group address and carry no
\* IPv4 header, ARP frames carry none either
LldpFrames == [src : MACs, dst : {LLDP_MULTICAST}, type : {LLDP_TYPE},
               ipv4 : {None}, tcp : {None}]
ArpFrames == [src : MACs, dst : MACs, type : {ARP_TYPE},
              ipv4 : {None}, tcp : {None}]
IpFrames == [src : MACs, dst : MACs, type : {IP_TYPE},
             ipv4 : { Some([srcip |-> s, dstip |-> d]) : s \in SrcIPs, d \in DstIPs },
             tcp : {None} \cup { Some([dstport |-> p]) : p \in TcpPorts }]
Frames == LldpFrames \cup ArpFrames \cup IpFrames

\* PacketIn events
Events == [dpid : Dpids, port : Ports, parsed : Frames, buffer_id : BufferIds]

\* what the htcondor module may answer: the lines of the response
ClassadLines(owner) == << [attr |-> "Owner", value |-> owner] >>
Responses ==
    { <<"FOUND">> \o ClassadLines(o) : o \in Owners } \cup
    { <<"FOUND">>, <<"NOFOUND">>, <<"">> }
\* The outcomes of one call of request_network_classad: the operations on
\* its socket in order, and either the response received or the exception
\* that leaves the call.  HTCONDOR_MODULE_HOST or HTCONDOR_MODULE_PORT may
\* be undefined (KeyError before a socket exists); connect, sendall and
\* recv may each raise, and the finally clause closes the socket.
SocketFailures ==
    { <<"socket", "connect", "close">>,
      <<"socket", "connect", "sendall", "close">>,
      <<"socket", "connect", "sendall", "recv", "close">> }
OracleReplies ==
    { [ok |-> TRUE, received |-> r, error |-> "none",
       sock |-> <<"socket", "connect", "sendall", "recv", "close">>] :
         r \in Responses } \cup
    { [ok |-> FALSE, received |-> <<>>, error |-> "socket.error", sock |-> f] :
         f \in SocketFailures } \cup
    { [ok |-> FALSE, received |-> <<>>, error |-> "KeyError", sock |-> <<>>] }

\* ------------------------------------------------------------ messages
\* of.ofp_packet_out() and of.ofp_flow_mod() as constructed, before the
\* handler sets any attribute
ofp_packet_out ==
    [command |-> "packet_out", actions |-> <<>>, buffer_id |-> NO_BUFFER,
     in_port |-> OFPP_NONE]
ofp_flow_mod ==
    [command |-> "flow_mod", priority |-> OFP_DEFAULT_PRIORITY, match |-> <<>>,
     idle_timeout |-> 0, hard_timeout |-> 0, actions |-> <<>>,
     buffer_id |-> NO_BUFFER]

\* ofp_match.from_packet(packet): every header field of the frame
from_packet(packet) ==
    LET l2 == [dl_src |-> packet.src, dl_dst |-> packet.dst, dl_type |-> packet.type]
        l3 == IF packet.ipv4 = None THEN <<>>
              ELSE [nw_src |-> packet.ipv4[1].srcip, nw_dst |-> packet.ipv4[1].dstip]
        l4 == IF packet.tcp = None THEN <<>>
              ELSE [tp_dst |-> packet.tcp[1].dstport]
    IN l2 @@ l3 @@ l4

\* ------------------------------------------------------------ the handler's trace
\* What one run of the handler did: the commands sent on the connection,
\* the oracle round trips, the configuration macros read, and the exception
\* that ended it ("none" when it returned).
NewTrace == [sent |-> <<>>, oracle |-> <<>>, params |-> <<>>, raised |-> "none"]
Send(t, msg) == [t EXCEPT !.sent = Append(@, msg)]
\* mutant: the exception is caught and dropped where it is raised
Raise_Swallowed(t, exc) == t
Raise(t, exc) == [t EXCEPT !.raised = exc]
ReadParam(t, key, val) == [t EXCEPT !.params = Append(@, [key |-> key, value |-> val])]
LastReply(t) == t.oracle[Len(t.oracle)].reply

\* mutant: sock.close() follows the try block instead of being its finally
\* clause, and is skipped when connect, sendall or recv raises
request_network_classad_NoFinally(t, ipv4addr) ==
    { [t EXCEPT !.oracle = Append(@, [ip |-> ipv4addr, reply |->
          IF r.error = "socket.error"
          THEN [r EXCEPT !.sock = SubSeq(@, 1, Len(@) - 1)]
          ELSE r])] :
        r \in OracleReplies }

\* request_network_classad: one round trip to the htcondor module; the
\* traces after it, one per possible reply
request_network_classad(t, ipv4addr) ==
    { [t EXCEPT !.oracle = Append(@, [ip |-> ipv4addr, reply |-> r])] :
        r \in OracleReplies }

\* str_to_classad: the attribute record of lines[1:]
str_to_classad(lines) ==
    LET idx == 2..Len(lines)
    IN [a \in { lines[i].attr : i \in idx } |->
          lines[CHOOSE i \in idx : lines[i].attr = a /\
                   \A j \in idx : lines[j].attr = a => j <= i].value]

\* mutant: the sentinel is looked for anywhere in the first line, and
\* "NOFOUND" contains "FOUND"
is_found_Substring(lines) == lines[1] \in {"FOUND", "NOFOUND"}

\* lines[0] == "FOUND": the sentinel of a response that carries a classad
is_found(lines) == lines[1] = "FOUND"

\* get_ip_addr: (ipv4src, ipv4dst), both None without an IPv4 header
get_ip_addr(packet) ==
    IF packet.ipv4 # None
    THEN << Some(packet.ipv4[1].srcip), Some(packet.ipv4[1].dstip) >>
    ELSE << None, None >>

\* ------------------------------------------------------------ L2 learning
\* mutant: the arrival port is compared with the port of the source MAC
l2_learning_SrcPort(macToPort_, event) ==
    LET packet == event.parsed IN
    IF packet.dst \notin DOMAIN macToPort_
    THEN [ofp_packet_out EXCEPT !.actions = <<OFPP_FLOOD>>,
                                !.buffer_id = event.buffer_id,
                                !.in_port = event.port]
    ELSE LET port == macToPort_[packet.src] IN
         IF port = event.port
         THEN [ofp_flow_mod EXCEPT !.match = from_packet(packet),
                                   !.idle_timeout = IDLE_TIMEOUT,
                                   !.hard_timeout = HARD_TIMEOUT,
                                   !.buffer_id = event.buffer_id]
         ELSE [ofp_flow_mod EXCEPT !.priority = 10,
                                   !.match = [dl_src |-> packet.src, dl_dst |-> packet.dst],
                                   !.idle_timeout = IDLE_TIMEOUT,
                                   !.hard_timeout = HARD_TIMEOUT,
                                   !.actions = <<port>>,
                                   !.buffer_id = event.buffer_id]

\* mutant: the test of the learned port against the arrival port is missing
l2_learning_NoLoopCheck(macToPort_, event) ==
    LET packet == event.parsed IN
    IF packet.dst \notin DOMAIN macToPort_
    THEN [ofp_packet_out EXCEPT !.actions = <<OFPP_FLOOD>>,
                                !.buffer_id = event.buffer_id,
                                !.in_port = event.port]
    ELSE [ofp_flow_mod EXCEPT !.priority = 10,
                              !.match = [dl_src |-> packet.src, dl_dst |-> packet.dst],
                              !.idle_timeout = IDLE_TIMEOUT,
                              !.hard_timeout = HARD_TIMEOUT,
                              !.actions = <<macToPort_[packet.dst]>>,
                              !.buffer_id = event.buffer_id]

\* l2_learning: the command for a frame the policy lets through
l2_learning(macToPort_, event) ==
    LET packet == event.parsed IN
    IF packet.dst \notin DOMAIN macToPort_
    THEN [ofp_packet_out EXCEPT !.actions = <<OFPP_FLOOD>>,
                                !.buffer_id = event.buffer_id,
                                !.in_port = event.port]
    ELSE LET port == macToPort_[packet.dst] IN
         IF port = event.port
         THEN [ofp_flow_mod EXCEPT !.match = from_packet(packet),
                                   !.idle_timeout = IDLE_TIMEOUT,
                                   !.hard_timeout = HARD_TIMEOUT,
                                   !.buffer_id = event.buffer_id]
         ELSE [ofp_flow_mod EXCEPT !.priority = 10,
                                   !.match = [dl_src |-> packet.src, dl_dst |-> packet.dst],
                                   !.idle_timeout = IDLE_TIMEOUT,
                                   !.hard_timeout = HARD_TIMEOUT,
                                   !.actions = <<port>>,
                                   !.buffer_id = event.buffer_id]

\* ------------------------------------------------------------ edge policy
\* the rule for a source owner in BLOCKED_USERS
drop_src_rule(event, ipv4src) ==
    [ofp_flow_mod EXCEPT !.priority = 12,
                         !.match = [nw_src |-> ipv4src, dl_src |-> event.parsed.src],
                         !.idle_timeout = IDLE_TIMEOUT,
                         !.hard_timeout = HARD_TIMEOUT,
                         !.buffer_id = event.buffer_id]

\* mutant: the destination field of the match is filled from the source
drop_src_dst_rule_SrcTwice(event, ipv4src, ipv4dst) ==
    [ofp_flow_mod EXCEPT !.priority = 12,
                         !.match = [nw_src |-> ipv4src, dl_src |-> event.parsed.src,
                                    nw_dst |-> ipv4src],
                         !.idle_timeout = IDLE_TIMEOUT,
                         !.hard_timeout = HARD_TIMEOUT,
                         !.buffer_id = event.buffer_id]

\* the rule for a flow between a source and a destination address
drop_src_dst_rule(event, ipv4src, ipv4dst) ==
    [ofp_flow_mod EXCEPT !.priority = 12,
                         !.match = [nw_src |-> ipv4src, dl_src |-> event.parsed.src,
                                    nw_dst |-> ipv4dst],
                         !.idle_timeout = IDLE_TIMEOUT,
                         !.hard_timeout = HARD_TIMEOUT,
                         !.buffer_id = event.buffer_id]

\* mutant: the white list test is inverted
white_list_check_Inverted(macToPort_, event, t, ipv4src, ipv4dst) ==
    UNION { LET t1 == ReadParam(t, "WHITE_LIST_IP", wl) IN
            IF wl = None THEN { Raise(t1, "KeyError") }
            ELSE LET white_list_ip == split(wl[1]) IN
                 IF InList(ip_to_str(ipv4dst), white_list_ip)
                 THEN { Send(t1, drop_src_dst_rule(event, ipv4src, ipv4dst)) }
                 ELSE { Send(t1, l2_learning(macToPort_, event)) }
          : wl \in ParamValues("WHITE_LIST_IP") }

\* destination not found while the owner is in BLOCKED_USERS_OUTSIDE: drop
\* unless the destination is in WHITE_LIST_IP
white_list_check(macToPort_, event, t, ipv4src, ipv4dst) ==
    UNION { LET t1 == ReadParam(t, "WHITE_LIST_IP", wl) IN
            IF wl = None THEN { Raise(t1, "KeyError") }
            ELSE LET white_list_ip == split(wl[1]) IN
                 IF ~InList(ip_to_str(ipv4dst), white_list_ip)
                 THEN { Send(t1, drop_src_dst_rule(event, ipv4src, ipv4dst)) }
                 ELSE { Send(t1, l2_learning(macToPort_, event)) }
          : wl \in ParamValues("WHITE_LIST_IP") }

\* case 1: the owner is in BLOCKED_USERS_OUTSIDE
case_blocked_outside(macToPort_, event, t, owner, ipv4src, ipv4dst) ==
    IF ipv4dst # None
    THEN UNION { LET reply == LastReply(t1)
                     lines == reply.received IN
                 IF ~reply.ok THEN { Raise(t1, reply.error) }
                 ELSE IF is_found(lines)
                 THEN LET network_classad == str_to_classad(lines) IN
                      IF "Owner" \notin DOMAIN network_classad
                      THEN { Raise(t1, "KeyError") }
                      ELSE IF owner # network_classad["Owner"]
                      THEN { Send(t1, drop_src_dst_rule(event, ipv4src, ipv4dst[1])) }
                      ELSE { Send(t1, l2_learning(macToPort_, event)) }
                 ELSE white_list_check(macToPort_, event, t1, ipv4src, ipv4dst[1])
               : t1 \in request_network_classad(t, ipv4dst[1]) }
    ELSE { Send(t, l2_learning(macToPort_, event)) }

\* case 2: the owner may reach the outside, but not another owner's job
case_unrestricted(macToPort_, event, t, owner, ipv4src, ipv4dst) ==
    IF ipv4dst # None
    THEN UNION { LET reply == LastReply(t1)
                     lines == reply.received IN
                 IF ~reply.ok THEN { Raise(t1, reply.error) }
                 ELSE IF is_found(lines)
                 THEN LET network_classad == str_to_classad(lines) IN
                      IF "Owner" \notin DOMAIN network_classad
                      THEN { Raise(t1, "KeyError") }
                      ELSE IF owner # network_classad["Owner"]
                      THEN { Send(t1, drop_src_dst_rule(event, ipv4src, ipv4dst[1])) }
                      ELSE { Send(t1, l2_learning(macToPort_, event)) }
                 ELSE { Send(t1, l2_learning(macToPort_, event)) }
               : t1 \in request_network_classad(t, ipv4dst[1]) }
    ELSE { Send(t, l2_learning(macToPort_, event)) }

\* the source owner is known and not in BLOCKED_USERS
owner_not_blocked(macToPort_, event, t, owner, ipv4src, ipv4dst) ==
    UNION { LET t1 == ReadParam(t, "BLOCKED_USERS_OUTSIDE", buo) IN
            IF buo = None THEN { Raise(t1, "KeyError") }
            ELSE LET blocked_users == split(buo[1]) IN
                 IF InList(owner, blocked_users)
                 THEN case_blocked_outside(macToPort_, event, t1, owner, ipv4src, ipv4dst)
                 ELSE case_unrestricted(macToPort_, event, t1, owner, ipv4src, ipv4dst)
          : buo \in ParamValues("BLOCKED_USERS_OUTSIDE") }

\* mutant: the return after the drop rule of a blocked owner is missing and
\* the handler goes on to the BLOCKED_USERS_OUTSIDE cases
source_found_NoReturn(macToPort_, event, t, lines, ipv4src, ipv4dst) ==
    LET network_classad == str_to_classad(lines) IN
    IF "Owner" \notin DOMAIN network_classad THEN { Raise(t, "KeyError") }
    ELSE LET owner == network_classad["Owner"] IN
    UNION { LET t1 == ReadParam(t, "BLOCKED_USERS", bu) IN
            IF bu = None THEN { Raise(t1, "KeyError") }
            ELSE LET blocked_users == split(bu[1])
                     t2 == IF InList(owner, blocked_users)
                           THEN Send(t1, drop_src_rule(event, ipv4src))
                           ELSE t1
                 IN owner_not_blocked(macToPort_, event, t2, owner, ipv4src, ipv4dst)
          : bu \in ParamValues("BLOCKED_USERS") }

\* the network classad of the source address was found
source_found(macToPort_, event, t, lines, ipv4src, ipv4dst) ==
    LET network_classad == str_to_classad(lines) IN
    IF "Owner" \notin DOMAIN network_classad THEN { Raise(t, "KeyError") }
    ELSE LET owner == network_classad["Owner"] IN
    UNION { LET t1 == ReadParam(t, "BLOCKED_USERS", bu) IN
            IF bu = None THEN { Raise(t1, "KeyError") }
            ELSE LET blocked_users == split(bu[1]) IN
                 IF InList(owner, blocked_users)
                 THEN { Send(t1, drop_src_rule(event, ipv4src)) }
                 ELSE owner_not_blocked(macToPort_, event, t1, owner, ipv4src, ipv4dst)
          : bu \in ParamValues("BLOCKED_USERS") }

\* the part of _handle_PacketIn an edge switch runs after the role test
handle_packet_for_edge_switch(macToPort_, event, t) ==
    LET packet == event.parsed
        ipv4addr == get_ip_addr(packet)
        ipv4src == ipv4addr[1]
        ipv4dst == ipv4addr[2]
    IN IF ipv4src # None
       THEN UNION { LET reply == LastReply(t1)
                        lines == reply.received IN
                    IF ~reply.ok THEN { Raise(t1, reply.error) }
                    ELSE IF is_found(lines)
                    THEN source_found(macToPort_, event, t1, lines, ipv4src[1], ipv4dst)
                    ELSE { Send(t1, l2_learning(macToPort_, event)) }
                  : t1 \in request_network_classad(t, ipv4src[1]) }
       ELSE { Send(t, l2_learning(macToPort_, event)) }

\* ------------------------------------------------------------ core policy
\* the rule of the core switch: the timeouts are set on the match object,
\* where they are plain attributes, and the flow-mod keeps its own
core_drop_rule(event, ipv4src) ==
    [ofp_flow_mod EXCEPT !.priority = 12,
                         !.match = [dl_type |-> 2048, nw_src |-> ipv4src, tp_dst |-> 80,
                                    hard_timeout |-> HARD_TIMEOUT,
                                    idle_timeout |-> IDLE_TIMEOUT],
                         !.buffer_id = event.buffer_id]

handle_packet_for_core_switch(macToPort_, event, t) ==
    LET packet == event.parsed
        ipv4addr == get_ip_addr(packet)
        ipv4src == ipv4addr[1]
    IN IF ipv4src # None
       THEN UNION { LET reply == LastReply(t1)
                        lines == reply.received IN
                    IF ~reply.ok THEN { Raise(t1, reply.error) }
                    ELSE IF is_found(lines)
                    THEN LET network_classad == str_to_classad(lines) IN
                         IF "Owner" \notin DOMAIN network_classad
                         THEN { Raise(t1, "KeyError") }
                         ELSE LET owner == network_classad["Owner"]
                                  tcppkt == packet.tcp
                                  tcpdstp == IF tcppkt # None THEN tcppkt[1].dstport ELSE 0
                              IN IF owner = <<"zzhang">> /\ tcpdstp = 80
                                 THEN { Send(t1, core_drop_rule(event, ipv4src[1])) }
                                 ELSE { Send(t1, l2_learning(macToPort_, event)) }
                    ELSE { Send(t1, l2_learning(macToPort_, event)) }
                  : t1 \in request_network_classad(t, ipv4src[1]) }
       ELSE { Send(t, l2_learning(macToPort_, event)) }

\* ------------------------------------------------------------ the handler
\* mutant: the port is recorded for the destination MAC
learn_Dst(macToPort_, event) ==
    [m \in DOMAIN macToPort_ \cup {event.parsed.dst} |->
        IF m = event.parsed.dst THEN event.port ELSE macToPort_[m]]

\* mutant: a MAC already in the table keeps its port
learn_FirstWins(macToPort_, event) ==
    IF event.parsed.src \in DOMAIN macToPort_
    THEN macToPort_
    ELSE (event.parsed.src :> event.port) @@ macToPort_

\* self.macToPort[packet.src] = event.port
learn(macToPort_, event) ==
    [m \in DOMAIN macToPort_ \cup {event.parsed.src} |->
        IF m = event.parsed.src THEN event.port ELSE macToPort_[m]]

\* the LLDP block: a packet-out without actions, and the handler goes on
lldp_ack(event, t) ==
    IF event.parsed.type = LLDP_TYPE
    THEN Send(t, [ofp_packet_out EXCEPT !.buffer_id = event.buffer_id,
                                        !.in_port = event.port])
    ELSE t

\* mutant: the source MAC is learned after the decision was taken
handle_PacketIn_LearnLast(macToPort_, event) ==
    LET t == lldp_ack(event, NewTrace)
        traces == IF dpid_to_str(event.dpid) = core_switch_mac
                  THEN handle_packet_for_core_switch(macToPort_, event, t)
                  ELSE handle_packet_for_edge_switch(macToPort_, event, t)
    IN { [macToPort |-> learn(macToPort_, event), trace |-> tr] : tr \in traces }

\* _handle_PacketIn on the table learned so far: the possible runs, each the
\* table after it and the trace
handle_PacketIn(macToPort_, event) ==
    LET table == learn(macToPort_, event)
        t == lldp_ack(event, NewTrace)
        connected_switch_mac == dpid_to_str(event.dpid)
        traces == IF connected_switch_mac = core_switch_mac
                  THEN handle_packet_for_core_switch(table, event, t)
                  ELSE handle_packet_for_edge_switch(table, event, t)
    IN { [macToPort |-> table, trace |-> tr] : tr \in traces }

\* ------------------------------------------------------------ state
\* macToPort: the learning table of the JobAwareSwitch instance listening
\*            on each connected switch, by datapath id
\* last:      None, or the PacketIn event just handled and the trace of the
\*            handler, until the commands it sent have left on the connection
\* seen:      history: the source MACs of the frames each switch has sent
\*            to the controller since its connection was established
\* everSeen:  history: the same, over all the connections of the switch
\* lastPort:  history: for each switch and source MAC, the arrival port of
\*            the most recent event with that source since the connection
\*            was established
\* flowTable: the flow entries installed in each switch, by datapath id
\* delivered: None, or the frame a switch has just handled in its dataplane
\*            by a flow entry, without an event for the controller
VARIABLES macToPort, last, seen, everSeen, lastPort, flowTable, delivered

vars == <<macToPort, last, seen, everSeen, lastPort, flowTable, delivered>>

Init ==
    /\ macToPort = <<>>
    /\ last = None
    /\ seen = [d \in Dpids |-> {}]
    /\ everSeen = [d \in Dpids |-> {}]
    /\ lastPort = [d \in Dpids |-> <<>>]
    /\ flowTable = [d \in Dpids |-> {}]
    /\ delivered = None

\* In Spec the controller is offered every event at any time: a switch
\* sends an event for each frame no flow entry matches, and its entries
\* may have expired before any frame.  Its flow table is left out there
\* (flowTable and delivered keep their initial values); SpecDataplane below
\* has it.
\* job_aware_switch._handle_ConnectionUp: a new JobAwareSwitch, with an
\* empty table, for the connection of the switch
handle_ConnectionUp(dpid) ==
    /\ last = None
    /\ macToPort' = [d \in DOMAIN macToPort \cup {dpid} |->
                        IF d = dpid THEN <<>> ELSE macToPort[d]]
    /\ seen' = [seen EXCEPT ![dpid] = {}]
    /\ lastPort' = [lastPort EXCEPT ![dpid] = <<>>]
    /\ UNCHANGED <<last, everSeen, flowTable, delivered>>

\* mutant: macToPort is an attribute of the class, one dictionary shared by
\* the instances of all the switches
PacketIn_SharedTable(event) ==
    /\ last = None
    /\ event.dpid \in DOMAIN macToPort
    /\ \E run \in handle_PacketIn(macToPort[event.dpid], event) :
          /\ macToPort' = [d \in DOMAIN macToPort |-> run.macToPort]
          /\ last' = Some([event |-> event, trace |-> run.trace])
    /\ seen' = [seen EXCEPT ![event.dpid] = @ \cup {event.parsed.src}]
    /\ everSeen' = [everSeen EXCEPT ![event.dpid] = @ \cup {event.parsed.src}]
    /\ lastPort' = [lastPort EXCEPT ![event.dpid] =
                        (event.parsed.src :> event.port) @@ @]
    /\ UNCHANGED <<flowTable, delivered>>

\* JobAwareSwitch._handle_PacketIn for an event of a connected switch
PacketIn(event) ==
    /\ last = None
    /\ event.dpid \in DOMAIN macToPort
    /\ \E run \in handle_PacketIn(macToPort[event.dpid], event) :
          /\ macToPort' = [macToPort EXCEPT ![event.dpid] = run.macToPort]
          /\ last' = Some([event |-> event, trace |-> run.trace])
    /\ seen' = [seen EXCEPT ![event.dpid] = @ \cup {event.parsed.src}]
    /\ everSeen' = [everSeen EXCEPT ![event.dpid] = @ \cup {event.parsed.src}]
    /\ lastPort' = [lastPort EXCEPT ![event.dpid] =
                        (event.parsed.src :> event.port) @@ @]
    /\ UNCHANGED <<flowTable, delivered>>

\* the commands of the handled event have left on the connection
Transmit ==
    /\ last # None
    /\ last' = None
    /\ UNCHANGED <<macToPort, seen, everSeen, lastPort, flowTable, delivered>>

Next ==
    \/ \E dpid \in Dpids : handle_ConnectionUp(dpid)
    \/ \E event \in Events : PacketIn(event)
    \/ Transmit

Spec == Init /\ [][Next]_vars

\* The controller with one switch, edge or core: the switch connects, and
\* may connect again after its connection ended.
ConnectAlone(dpid) ==
    /\ DOMAIN macToPort \subseteq {dpid}
    /\ handle_ConnectionUp(dpid)

NextAlone ==
    \/ \E dpid \in Dpids : ConnectAlone(dpid)
    \/ \E event \in Events : PacketIn(event)
    \/ Transmit

SpecAlone == Init /\ [][NextAlone]_vars

\* ------------------------------------------------------------ the dataplane
\* The edge switch with its flow table.  The flow-mods of the controller
\* install entries; a frame that an entry matches is handled by the
\* switch alone, by the entry of highest priority; only a frame no entry
\* matches becomes a PacketIn event; an entry is removed when its idle or
\* hard timeout expires.

\* the frames two hosts exchange: address resolution both ways, then
\* IPv4 from the first host to the second
DataplaneFrames ==
    { f \in ArpFrames \cup IpFrames :
        /\ f.src # f.dst
        /\ f.tcp = None
        /\ f.ipv4 # None => f.src = "m1" /\ f.ipv4[1].dstip # f.ipv4[1].srcip }

\* the flow entry a flow-mod installs
FlowEntry(msg) ==
    [priority |-> msg.priority, match |-> msg.match, actions |-> msg.actions]

\* OFPFC_ADD: the entry replaces one of the same match and priority
FlowAdd(entries, msg) ==
    { e \in entries : ~(e.match = msg.match /\ e.priority = msg.priority) }
        \cup { FlowEntry(msg) }

\* the flow table after the first n commands of a handler's trace
RECURSIVE InstallAll(_, _, _)
InstallAll(entries, sent, n) ==
    IF n = 0 THEN entries
    ELSE LET before == InstallAll(entries, sent, n - 1) IN
         IF sent[n].command = "flow_mod" THEN FlowAdd(before, sent[n]) ELSE before

\* an entry matches a frame: every field its match sets is a header field
\* of the frame with that value; the fields it leaves out are wildcards
Matches(entry, frame) ==
    LET fields == from_packet(frame) IN
    \A f \in DOMAIN entry.match :
        f \in DOMAIN fields /\ fields[f] = entry.match[f]

\* the entries a switch may apply to a frame: those of highest priority
\* among the matching ones
Applied(dpid, frame) ==
    { e \in flowTable[dpid] :
        /\ Matches(e, frame)
        /\ \A e2 \in flowTable[dpid] : Matches(e2, frame) => e2.priority <= e.priority }

\* the ports a frame leaves on by an entry: its outputs, the ingress port
\* excepted
Outputs(entry, port) ==
    { entry.actions[i] : i \in 1..Len(entry.actions) } \ {port}

SwitchConnects ==
    /\ delivered = None
    /\ EDGE_DPID \notin DOMAIN macToPort
    /\ handle_ConnectionUp(EDGE_DPID)

\* a frame no entry matches: the event goes to the controller
TableMiss(event) ==
    /\ delivered = None
    /\ event.dpid = EDGE_DPID
    /\ event.parsed \in DataplaneFrames
    /\ Applied(event.dpid, event.parsed) = {}
    /\ PacketIn(event)

\* the commands of the handled event reach the switch
Install ==
    /\ last # None
    /\ flowTable' = [flowTable EXCEPT ![last[1].event.dpid] =
                         InstallAll(@, last[1].trace.sent, Len(last[1].trace.sent))]
    /\ last' = None
    /\ UNCHANGED <<macToPort, seen, everSeen, lastPort, delivered>>

\* a frame an entry matches: the switch applies the entry.  reply and
\* blocked_users are what the oracle holds for the frame's source address
\* and what BLOCKED_USERS is at that moment; nobody reads them.
FlowHit(port, frame) ==
    /\ last = None
    /\ delivered = None
    /\ EDGE_DPID \in DOMAIN macToPort
    /\ frame \in DataplaneFrames
    /\ \E e \in Applied(EDGE_DPID, frame), r \in OracleReplies,
          bu \in ParamValues("BLOCKED_USERS") :
          delivered' = Some([dpid |-> EDGE_DPID, port |-> port, parsed |-> frame,
                             entry |-> e, out |-> Outputs(e, port),
                             reply |-> r, blocked_users |-> bu])
    /\ UNCHANGED <<macToPort, last, seen, everSeen, lastPort, flowTable>>

\* the frame has left the switch, or was dropped
Release ==
    /\ delivered # None
    /\ delivered' = None
    /\ UNCHANGED <<macToPort, last, seen, everSeen, lastPort, flowTable>>

\* idle_timeout or hard_timeout of an entry expires
Expire(entry) ==
    /\ last = None
    /\ delivered = None
    /\ entry \in flowTable[EDGE_DPID]
    /\ flowTable' = [flowTable EXCEPT ![EDGE_DPID] = @ \ {entry}]
    /\ UNCHANGED <<macToPort, last, seen, everSeen, lastPort, delivered>>

NextDataplane ==
    \/ SwitchConnects
    \/ \E event \in Events : TableMiss(event)
    \/ Install
    \/ \E port \in Ports, frame \in DataplaneFrames : FlowHit(port, frame)
    \/ Release
    \/ \E entry \in flowTable[EDGE_DPID] : Expire(entry)

SpecDataplane == Init /\ [][NextDataplane]_vars

\* ------------------------------------------------------------ vocabulary of the properties
\* the event just handled, its frame, its trace, and the table of its
\* switch as the handler left it
Handled == last # None
Ev == last[1].event
Pkt == Ev.parsed
Tr == last[1].trace
Table == macToPort[Ev.dpid]
IsCore == Ev.dpid = CORE_DPID
HasIp == Pkt.ipv4 # None
SrcIp == Pkt.ipv4[1].srcip
DstIp == Pkt.ipv4[1].dstip

\* The answers of the oracle and the values of the configuration at the
\* time of the event: what the handler received when it asked, anything the
\* environment allows when it did not ask.  The first round trip of an
\* event is for the source address and the second for the destination.
SrcReplies == IF Len(Tr.oracle) >= 1 THEN {Tr.oracle[1].reply} ELSE OracleReplies
DstReplies == IF Len(Tr.oracle) >= 2 THEN {Tr.oracle[2].reply} ELSE OracleReplies
ParamAt(key) ==
    IF \E i \in 1..Len(Tr.params) : Tr.params[i].key = key
    THEN { Tr.params[i].value : i \in { j \in 1..Len(Tr.params) : Tr.params[j].key = key } }
    ELSE ParamValues(key)

\* the oracle answered FOUND with an owner, and that owner; it answered NOFOUND
Found(r) == r.ok /\ Len(r.received) = 2 /\ r.received[1] = "FOUND"
                 /\ r.received[2].attr = "Owner"
OwnerOf(r) == r.received[2].value
NotFound(r) == r.ok /\ r.received = <<"NOFOUND">>

\* the set a comma-separated list stands for: its maximal comma-free runs
ListItems(s) ==
    { SubSeq(s, q[1], q[2]) :
        q \in { r \in (1..(Len(s) + 1)) \X (0..Len(s)) :
                  /\ r[1] <= r[2] + 1
                  /\ \A n \in r[1]..r[2] : s[n] # ","
                  /\ (r[1] = 1 \/ s[r[1] - 1] = ",")
                  /\ (r[2] = Len(s) \/ s[r[2] + 1] = ",") } }
\* membership in the set a defined macro stands for
Listed(x, v) == v # None /\ x \in ListItems(v[1])
Unlisted(x, v) == v # None /\ x \notin ListItems(v[1])

IsFlowMod(m) == m.command = "flow_mod"
\* a rule of the L2 tier matches on the destination MAC, a policy rule on
\* the source address and never on the destination MAC
IsL2Rule(m) == IsFlowMod(m) /\ "dl_dst" \in DOMAIN m.match
IsPolicyRule(m) == IsFlowMod(m) /\ "dl_dst" \notin DOMAIN m.match
Sent == { Tr.sent[i] : i \in 1..Len(Tr.sent) }
\* no command of the event outputs the frame on any port
NoOutput == \A m \in Sent : m.actions = <<>>
\* decision Drop: a policy rule without actions takes the buffered frame,
\* and nothing outputs it
Dropped ==
    /\ \E m \in Sent : /\ IsPolicyRule(m)
                       /\ m.actions = <<>>
                       /\ m.buffer_id = Ev.buffer_id
                       /\ m.match.nw_src = SrcIp
    /\ NoOutput
\* the weakest reading of Drop: some rule without actions is installed and
\* nothing outputs the frame
AnyDrop == NoOutput /\ \E m \in Sent : IsFlowMod(m) /\ m.actions = <<>>
DropScope == { m.match : m \in { n \in Sent : IsPolicyRule(n) } }
SrcOnly == [nw_src |-> SrcIp, dl_src |-> Pkt.src]
SrcAndDst == [nw_src |-> SrcIp, dl_src |-> Pkt.src, nw_dst |-> DstIp]
\* decision Allow: the handler returned, and its one command is the one of
\* L2 learning on the table with the source learned
Allowed ==
    /\ Tr.raised = "none"
    /\ Tr.sent = << l2_learning(Table, Ev) >>
    /\ \A m \in Sent : ~IsPolicyRule(m)

\* ------------------------------------------------------------ C1
\* C1 as stated: for every packet event whose IPv4 source resolves to an
\* owner that is in BlockedUsers at the time of the event, the decision is
\* Drop, whatever the destination and whatever the switch.
C1_AsStated ==
    (Handled /\ HasIp) =>
        \A r \in SrcReplies, bu \in ParamAt("BLOCKED_USERS") :
            (Found(r) /\ Listed(OwnerOf(r), bu)) => AnyDrop

\* C1, amended: on an edge switch, every packet event whose IPv4 source
\* resolves to an owner in BlockedUsers is decided Drop with a rule on the
\* source alone (source address and source MAC), and the frame is neither
\* flooded nor forwarded, whatever the destination.
C1_BlockedOwnerDroppedOnEdge ==
    (Handled /\ HasIp /\ ~IsCore) =>
        \A r \in SrcReplies, bu \in ParamAt("BLOCKED_USERS") :
            (Found(r) /\ Listed(OwnerOf(r), bu)) =>
                /\ Dropped
                /\ DropScope = {SrcOnly}
                /\ Len(Tr.sent) = 1

\* a blocked owner's frame to a destination MAC learned on another port,
\* which L2 learning would have forwarded, is dropped on the edge switch
C1_Witness ==
    /\ Handled /\ HasIp /\ ~IsCore
    /\ Found(Tr.oracle[1].reply)
    /\ \E i \in 1..Len(Tr.params) :
          /\ Tr.params[i].key = "BLOCKED_USERS"
          /\ Listed(OwnerOf(Tr.oracle[1].reply), Tr.params[i].value)
    /\ Pkt.dst \in DOMAIN Table
    /\ Table[Pkt.dst] # Ev.port
    /\ Dropped

\* ------------------------------------------------------------ C2
\* C2 as stated: for every flow whose source owner is in
\* BlockedUsersOutside and whose destination is untracked, the decision is
\* Drop when the destination is not in WhitelistIPs and Allow when it is,
\* for every combination of the three sets (read on the edge tier, whose
\* rule it states).
C2_AsStated ==
    (Handled /\ HasIp /\ ~IsCore) =>
        \A r \in SrcReplies, bu \in ParamAt("BLOCKED_USERS"),
           buo \in ParamAt("BLOCKED_USERS_OUTSIDE"),
           d \in DstReplies, wl \in ParamAt("WHITE_LIST_IP") :
            (/\ Found(r)
             /\ bu # None
             /\ Listed(OwnerOf(r), buo)
             /\ NotFound(d)
             /\ wl # None) =>
                IF Listed(ip_to_str(DstIp), wl) THEN Allowed ELSE AnyDrop

\* C2, amended: on an edge switch, for every flow whose source owner is in
\* BlockedUsersOutside and not in BlockedUsers, and whose destination is
\* untracked: the decision is Drop (rule on source and destination) when
\* the destination is not in WhitelistIPs, and Allow when it is.
C2_OutsideBlockedUnlessWhitelisted ==
    (Handled /\ HasIp /\ ~IsCore) =>
        \A r \in SrcReplies, bu \in ParamAt("BLOCKED_USERS"),
           buo \in ParamAt("BLOCKED_USERS_OUTSIDE"),
           d \in DstReplies, wl \in ParamAt("WHITE_LIST_IP") :
            (/\ Found(r)
             /\ Unlisted(OwnerOf(r), bu)
             /\ Listed(OwnerOf(r), buo)
             /\ NotFound(d)
             /\ wl # None) =>
                IF Listed(ip_to_str(DstIp), wl)
                THEN Allowed
                ELSE Dropped /\ DropScope = {SrcAndDst} /\ Len(Tr.sent) = 1

\* an owner blocked from the outside reaches a whitelisted untracked
\* destination and the frame is forwarded
C2_Witness ==
    /\ Handled /\ HasIp /\ ~IsCore
    /\ Len(Tr.oracle) = 2 /\ Len(Tr.params) = 3
    /\ Found(Tr.oracle[1].reply)
    /\ Unlisted(OwnerOf(Tr.oracle[1].reply), Tr.params[1].value)
    /\ Listed(OwnerOf(Tr.oracle[1].reply), Tr.params[2].value)
    /\ NotFound(Tr.oracle[2].reply)
    /\ Listed(ip_to_str(DstIp), Tr.params[3].value)
    /\ Allowed
    /\ \E m \in Sent : IsFlowMod(m) /\ m.actions # <<>>

\* ------------------------------------------------------------ C3
\* C3 as stated: for every flow whose source owner is unrestricted, the
\* decision is Drop iff the destination resolves to a tracked owner other
\* than the source owner, and Allow in every other case.
C3_AsStated ==
    (Handled /\ HasIp) =>
        \A r \in SrcReplies, bu \in ParamAt("BLOCKED_USERS"),
           buo \in ParamAt("BLOCKED_USERS_OUTSIDE"), d \in DstReplies :
            (/\ Found(r)
             /\ Unlisted(OwnerOf(r), bu)
             /\ Unlisted(OwnerOf(r), buo)
             /\ (Found(d) \/ NotFound(d))) =>
                IF Found(d) /\ OwnerOf(d) # OwnerOf(r) THEN AnyDrop ELSE Allowed

\* C3, amended: on an edge switch, for every flow whose source owner is
\* unrestricted, the decision is Drop (rule on source and destination) iff
\* the destination resolves to a tracked owner other than the source
\* owner, and Allow when it resolves to the same owner or is not found.
C3_UnrestrictedDropsOtherOwnerOnly ==
    (Handled /\ HasIp /\ ~IsCore) =>
        \A r \in SrcReplies, bu \in ParamAt("BLOCKED_USERS"),
           buo \in ParamAt("BLOCKED_USERS_OUTSIDE"), d \in DstReplies :
            (/\ Found(r)
             /\ Unlisted(OwnerOf(r), bu)
             /\ Unlisted(OwnerOf(r), buo)
             /\ (Found(d) \/ NotFound(d))) =>
                IF Found(d) /\ OwnerOf(d) # OwnerOf(r)
                THEN Dropped /\ DropScope = {SrcAndDst} /\ Len(Tr.sent) = 1
                ELSE Allowed /\ ~Dropped

\* an unrestricted owner's frame to another owner's job, sent to another
\* host, is dropped
C3_Witness ==
    /\ Handled /\ HasIp /\ ~IsCore
    /\ Len(Tr.oracle) = 2 /\ Len(Tr.params) = 2
    /\ Found(Tr.oracle[1].reply) /\ Found(Tr.oracle[2].reply)
    /\ Unlisted(OwnerOf(Tr.oracle[1].reply), Tr.params[1].value)
    /\ Unlisted(OwnerOf(Tr.oracle[1].reply), Tr.params[2].value)
    /\ OwnerOf(Tr.oracle[2].reply) # OwnerOf(Tr.oracle[1].reply)
    /\ SrcIp # DstIp
    /\ Dropped

\* ------------------------------------------------------------ C4
\* C4: for every packet event whose source address the oracle answers
\* NOFOUND for, no policy rule is installed, the one command sent is the one
\* of L2 learning, the destination is not resolved and no list of the
\* configuration is read.
C4_UnresolvedSourceDefersToL2 ==
    (Handled /\ HasIp /\ NotFound(Tr.oracle[1].reply)) =>
        /\ Allowed
        /\ ~Dropped
        /\ Len(Tr.oracle) = 1
        /\ Tr.oracle[1].ip = SrcIp
        /\ Tr.params = <<>>

\* a frame from an unresolved source to another address is forwarded to the
\* port learned for its destination MAC
C4_Witness ==
    /\ Handled /\ HasIp
    /\ NotFound(Tr.oracle[1].reply)
    /\ SrcIp # DstIp
    /\ \E m \in Sent : IsFlowMod(m) /\ m.actions = <<Table[Pkt.dst]>>

\* ------------------------------------------------------------ C5
\* the frame is flooded; the handler returned without installing a policy
\* rule, so that its last command is the one of L2 learning
Flooded == \E m \in Sent : \E i \in 1..Len(m.actions) : m.actions[i] = OFPP_FLOOD
Deferred == Tr.raised = "none" /\ \A m \in Sent : ~IsPolicyRule(m)

\* C5 as stated: a frame is flooded iff its destination MAC has never been
\* observed as a source MAC on that switch, the frame's own source counted
\* (read for the events the handler returns from).
C5_AsStated ==
    (Handled /\ Tr.raised = "none") =>
        (Flooded <=> Pkt.dst \notin everSeen[Ev.dpid])

\* C5, amended: no frame whose destination MAC has been observed as a
\* source MAC on the switch since its connection was established (the
\* frame's own source counted) is flooded, and every frame to a MAC not
\* observed since then is flooded unless the policy drops it or the handler
\* ends in an exception.
C5_FloodIffUnseenWhenDeferred ==
    Handled =>
        /\ Flooded => Pkt.dst \notin seen[Ev.dpid]
        /\ (Deferred /\ Pkt.dst \notin seen[Ev.dpid]) => Flooded

\* a frame for a MAC the switch has not shown yet is flooded, after another
\* MAC was learned
C5_Witness ==
    /\ Handled /\ Deferred /\ Flooded
    /\ Pkt.dst \in MACs
    /\ Pkt.dst \notin seen[Ev.dpid]
    /\ seen[Ev.dpid] = {Pkt.src}

\* ------------------------------------------------------------ C6
\* a rule without actions on the full match of the frame; a rule that
\* outputs the frame on the port learned for its destination
LoopDropped ==
    \E m \in Sent : IsFlowMod(m) /\ m.actions = <<>> /\ m.match = from_packet(Pkt)
Forwarded ==
    \E m \in Sent : IsFlowMod(m) /\ m.actions = <<Table[Pkt.dst]>>
                                 /\ m.buffer_id = Ev.buffer_id
DstKnown == Pkt.dst \in DOMAIN Table

\* C6 as stated: a loop-Drop occurs for a packet event iff the port learned
\* for the destination MAC equals the arrival port; when the learned port
\* differs the frame is forwarded and never loop-dropped (read for the
\* events the handler returns from).
C6_AsStated ==
    (Handled /\ Tr.raised = "none") =>
        /\ LoopDropped <=> (DstKnown /\ Table[Pkt.dst] = Ev.port)
        /\ (DstKnown /\ Table[Pkt.dst] # Ev.port) => (Forwarded /\ ~LoopDropped)

\* C6, amended: a loop-Drop occurs only if the port learned for the
\* destination MAC equals the arrival port; unless the policy drops the
\* frame or the handler ends in an exception, it occurs whenever the two
\* are equal, and when they differ the frame is forwarded to the learned
\* port and not loop-dropped.
C6_LoopDropIffSamePortWhenDeferred ==
    Handled =>
        /\ LoopDropped => (DstKnown /\ Table[Pkt.dst] = Ev.port)
        /\ (Deferred /\ DstKnown /\ Table[Pkt.dst] = Ev.port) =>
               (LoopDropped /\ NoOutput)
        /\ (Deferred /\ DstKnown /\ Table[Pkt.dst] # Ev.port) =>
               (Forwarded /\ ~LoopDropped)

\* a frame between two hosts learned on the same port is loop-dropped
C6_Witness ==
    /\ Handled /\ Deferred
    /\ Pkt.src # Pkt.dst
    /\ DstKnown
    /\ Table[Pkt.dst] = Ev.port
    /\ LoopDropped

\* ------------------------------------------------------------ C7
\* C7 as stated: for an LLDP frame the handler sends the packet-out
\* without actions and neither a flood packet-out nor a flow-mod, on edge
\* and core switches alike.
C7_AsStated ==
    (Handled /\ Pkt.type = LLDP_TYPE) =>
        /\ Sent # {}
        /\ \A m \in Sent : m.command = "packet_out" /\ m.actions = <<>>

\* ------------------------------------------------------------ C8
\* C8 as stated: every packet event the handler returns from results in
\* exactly one command sent on the connection.
C8_AsStated ==
    (Handled /\ Tr.raised = "none") => Len(Tr.sent) = 1

\* ------------------------------------------------------------ C9
\* C9 as stated: every flow-mod the controller sends carries idle timeout
\* 5 and hard timeout 10 on the flow-mod itself.
C9_AsStated ==
    Handled =>
        \A m \in Sent : IsFlowMod(m) => (m.idle_timeout = 5 /\ m.hard_timeout = 10)

\* ------------------------------------------------------------ C10
\* C10 as stated: every policy rule has priority 12 and every other rule
\* the controller installs has a lower priority.
C10_AsStated ==
    Handled =>
        \A m \in Sent : IsFlowMod(m) =>
            IF IsPolicyRule(m) THEN m.priority = 12 ELSE m.priority < 12

\* ------------------------------------------------------------ C11
\* the L2 command of the handled event, when the event was left to L2
\* learning: the last command sent
L2Command == Tr.sent[Len(Tr.sent)]

\* what L2 learning decides on a table for a frame, read from the table:
\* flood, loop-drop or forward
L2Kind(table, ev) ==
    IF ev.parsed.dst \notin DOMAIN table THEN "flood"
    ELSE IF table[ev.parsed.dst] = ev.port THEN "loop-drop"
    ELSE "forward"

\* the kind of a command of L2 learning
KindOf(m) ==
    IF ~IsFlowMod(m) THEN "flood"
    ELSE IF m.actions = <<>> THEN "loop-drop"
    ELSE "forward"

\* C11: MAC learning is unconditional and precedes the decision.  Whatever
\* the outcome of a packet event (policy drop, LLDP acknowledgment, flood,
\* forward, loop-drop, or an exception leaving the handler), the table of
\* its switch maps the frame's source MAC to its arrival port, and a
\* decision left to L2 learning is the one read from the table that holds
\* this entry.  At any time the table of a connected switch maps each MAC
\* to the arrival port of the most recent event with that source MAC on the
\* connection, and holds every MAC learned on the connection.
C11_LearningFirstLastWriteWins ==
    /\ \A d \in DOMAIN macToPort :
          /\ macToPort[d] = lastPort[d]
          /\ DOMAIN macToPort[d] = seen[d]
    /\ Handled =>
          /\ Pkt.src \in DOMAIN Table
          /\ Table[Pkt.src] = Ev.port
          /\ Deferred => KindOf(L2Command) = L2Kind(Table, Ev)

\* C11 witness: an event on port 2 of a switch whose table holds another MAC on port 1,
\* the handler left by an exception after the oracle had been queried and
\* the source MAC learned all the same
C11_Witness ==
    /\ Handled
    /\ Tr.raised # "none"
    /\ Len(Tr.oracle) >= 1
    /\ Cardinality(DOMAIN Table) = 2
    /\ Ev.port = 2
    /\ \E m \in DOMAIN Table : m # Pkt.src /\ Table[m] = 1

\* ------------------------------------------------------------ C12
\* two runs of the handler got the same answers: the oracle answered the
\* same for the same address and the macros read had the same values
SameAnswers(t1, t2) ==
    /\ \A i \in 1..Len(t1.oracle), j \in 1..Len(t2.oracle) :
          t1.oracle[i].ip = t2.oracle[j].ip =>
              t1.oracle[i].reply = t2.oracle[j].reply
    /\ \A i \in 1..Len(t1.params), j \in 1..Len(t2.params) :
          t1.params[i].key = t2.params[j].key =>
              t1.params[i].value = t2.params[j].value

\* the runs of the handler on the event just handled, handled once more on
\* the table the first handling left
Replays == handle_PacketIn(Table, Ev)

\* C12: determinism.  Handling the event just handled once more on the same
\* switch, on the table the first handling left, with the oracle giving the
\* same answers for the same addresses and the configuration unchanged,
\* ends the same way, sends the same commands in the same order, asks the
\* oracle the same questions, and leaves the table as it was.
C12_ReplayIsTheSame ==
    Handled =>
        \A run \in Replays :
            SameAnswers(Tr, run.trace) =>
                /\ run.trace = Tr
                /\ run.macToPort = Table

\* C12 witness: an event whose handling changed the table (its source MAC
\* was not in it on that port: the frame is addressed to its own source and
\* was loop-dropped) and whose replay with the same answers exists, after
\* two round trips and a policy that let the frame through
C12_Witness ==
    /\ Handled
    /\ Pkt.src = Pkt.dst
    /\ Len(Tr.oracle) = 2
    /\ Tr.raised = "none"
    /\ LoopDropped
    /\ \E run \in Replays : SameAnswers(Tr, run.trace)

\* ------------------------------------------------------------ C13
\* C13: the tables are per switch.  A packet event changes no table but the
\* one of its own switch, in which it writes the entry of its source MAC
\* and nothing else, and its L2 decision is the one read from that table;
\* no step connects or disconnects another switch on the way.  A step that
\* handles no packet event (a connection being established) leaves each
\* table as it was or empty, and a switch whose connection has just been
\* established has an empty table, whatever it had learned before.
C13_TablesArePerSwitch ==
    [][ /\ last' # None =>
            LET event == last'[1].event
                own == event.dpid
            IN  /\ DOMAIN macToPort' = DOMAIN macToPort
                /\ \A other \in DOMAIN macToPort \ {own} :
                      macToPort'[other] = macToPort[other]
                /\ \A m \in DOMAIN macToPort[own] \ {event.parsed.src} :
                      /\ m \in DOMAIN macToPort'[own]
                      /\ macToPort'[own][m] = macToPort[own][m]
                /\ DOMAIN macToPort'[own] =
                      DOMAIN macToPort[own] \cup {event.parsed.src}
                /\ (Deferred => KindOf(L2Command) = L2Kind(Table, Ev))'
        /\ (last = None /\ last' = None) =>
              /\ DOMAIN macToPort \subseteq DOMAIN macToPort'
              /\ \A d \in DOMAIN macToPort :
                    macToPort'[d] = macToPort[d] \/ macToPort'[d] = <<>>
        /\ \A d \in DOMAIN macToPort' :
              /\ d \notin DOMAIN macToPort => macToPort'[d] = <<>>
              /\ seen'[d] = {} => macToPort'[d] = <<>>
      ]_vars

\* C13 witness: an event handled on a switch that had learned a MAC on an
\* earlier connection and lost it when it connected again, while the other
\* switch has the source MAC of the event on another port
C13_Witness ==
    /\ Handled
    /\ everSeen[Ev.dpid] # seen[Ev.dpid]
    /\ \E other \in DOMAIN macToPort \ {Ev.dpid} :
          /\ Pkt.src \in DOMAIN macToPort[other]
          /\ macToPort[other][Pkt.src] # Ev.port

\* ------------------------------------------------------------ C14
\* the optional list macros of the configuration
OptionalLists == {"BLOCKED_USERS", "BLOCKED_USERS_OUTSIDE", "WHITE_LIST_IP"}

\* the handled event read an optional list macro that is not defined
ReadUndefinedList ==
    \E i \in 1..Len(Tr.params) :
        Tr.params[i].key \in OptionalLists /\ Tr.params[i].value = None

\* C14 as stated: an optional list macro that is not defined is not a
\* fault: the handler returns and a command has been sent for the event.
C14_AsStated ==
    (Handled /\ ReadUndefinedList) =>
        /\ Tr.raised = "none"
        /\ Tr.sent # <<>>

\* ------------------------------------------------------------ C15
\* a response whose first line is neither sentinel
Malformed(r) == r.ok /\ r.received[1] \notin {"FOUND", "NOFOUND"}

\* C15 as stated: a malformed oracle response, to the source or to the
\* destination lookup, is fail-open: when the handler returns, the event
\* was left to L2 learning and no policy rule was installed.
C15_AsStated ==
    (/\ Handled
     /\ Tr.raised = "none"
     /\ \E i \in 1..Len(Tr.oracle) : Malformed(Tr.oracle[i].reply)) =>
        Deferred

\* ------------------------------------------------------------ C17
\* the last oracle call of the handled event failed on its socket: connect,
\* sendall or recv raised
OracleFailed ==
    /\ Len(Tr.oracle) >= 1
    /\ LastReply(Tr).error = "socket.error"

\* C17: a failed oracle call is not masked.  When connect, sendall or recv
\* of an oracle call raises, the exception leaves the handler: no command
\* at all has been sent for the event (no drop, flood or forward), every
\* oracle call before the failed one succeeded, the source MAC of the frame
\* is in the table on its arrival port with all that was learned before,
\* and the step that follows only releases the event, leaving the
\* controller idle on unchanged tables, ready for the next event.
C17_OracleFailureAbortsEvent ==
    [][ (Handled /\ OracleFailed) =>
            /\ Tr.raised = "socket.error"
            /\ Tr.sent = <<>>
            /\ \A i \in 1..(Len(Tr.oracle) - 1) : Tr.oracle[i].reply.ok
            /\ Pkt.src \in DOMAIN Table /\ Table[Pkt.src] = Ev.port
            /\ DOMAIN Table = seen[Ev.dpid]
            /\ last' = None
            /\ macToPort' = macToPort
      ]_vars

\* C17 witness: the destination lookup of an event failed at recv, after the
\* source lookup had succeeded, on a switch that had learned another MAC
C17_Witness ==
    /\ Handled
    /\ OracleFailed
    /\ Len(Tr.oracle) = 2
    /\ LastReply(Tr).sock = <<"socket", "connect", "sendall", "recv", "close">>
    /\ Cardinality(DOMAIN Table) = 2

\* ------------------------------------------------------------ C18
\* the socket operations of the handled event, in order, over its oracle
\* calls up to the i-th
RECURSIVE SockOps(_)
SockOps(i) == IF i = 0 THEN <<>> ELSE SockOps(i - 1) \o Tr.oracle[i].reply.sock

\* how many of the first n operations of ops are op
CountOp(ops, n, op) == Cardinality({ k \in 1..n : ops[k] = op })

\* the connections open after the first n of the socket operations ops
OpenAfter(ops, n) == CountOp(ops, n, "socket") - CountOp(ops, n, "close")

\* C18: oracle connections are per call.  Every oracle call of an event
\* that gets as far as a socket creates its own, connects it, and closes
\* it as its last operation, whether the call returned a response or raised
\* at connect, sendall or recv (a call that raises before, on an undefined
\* host or port macro, has no socket at all); a response comes from a
\* socket that sent the request and received; over the event at most one
\* connection is open at any time and none is left open after it; and every
\* event with an IPv4 header makes its own round trip for the source
\* address, whatever was resolved before.
C18_ConnectionPerCall ==
    Handled =>
        LET ops == SockOps(Len(Tr.oracle)) IN
        /\ \A i \in 1..Len(Tr.oracle) :
              LET r == Tr.oracle[i].reply IN
              /\ r.sock = <<>> <=> r.error = "KeyError"
              /\ r.sock # <<>> =>
                    /\ r.sock[1] = "socket" /\ r.sock[2] = "connect"
                    /\ r.sock[Len(r.sock)] = "close"
                    /\ CountOp(r.sock, Len(r.sock), "socket") = 1
                    /\ CountOp(r.sock, Len(r.sock), "close") = 1
              /\ r.ok => r.sock = <<"socket", "connect", "sendall", "recv", "close">>
        /\ \A n \in 0..Len(ops) : OpenAfter(ops, n) \in {0, 1}
        /\ OpenAfter(ops, Len(ops)) = 0
        /\ HasIp => Len(Tr.oracle) >= 1 /\ Tr.oracle[1].ip = SrcIp

\* C18 witness: one event resolved the same address twice, as source and as
\* destination, on two connections, the first answered and closed, the
\* second closed after recv had raised
C18_Witness ==
    /\ Handled
    /\ Len(Tr.oracle) = 2
    /\ Tr.oracle[1].ip = Tr.oracle[2].ip
    /\ Tr.oracle[1].reply.ok
    /\ Tr.oracle[2].reply.error = "socket.error"
    /\ Len(SockOps(2)) = 10

\* ------------------------------------------------------------ C19
\* C19: the oracle queries of an event are ordered and bounded.  A frame
\* without IPv4 addresses causes no query; with addresses the first query
\* is for the source address; a second query is made only on an edge
\* switch, for the destination address, after the source was answered FOUND
\* with an owner that the BLOCKED_USERS list read for the event does not
\* hold; there are at most two queries on an edge switch and at most one,
\* for the source, on the core switch.
C19_QueriesOrderedAndBounded ==
    Handled =>
        /\ ~HasIp => Tr.oracle = <<>>
        /\ HasIp => Len(Tr.oracle) >= 1 /\ Tr.oracle[1].ip = SrcIp
        /\ Len(Tr.oracle) <= 2
        /\ IsCore => Len(Tr.oracle) <= 1
        /\ Len(Tr.oracle) = 2 =>
              /\ ~IsCore
              /\ Tr.oracle[2].ip = DstIp
              /\ Found(Tr.oracle[1].reply)
              /\ \E i \in 1..Len(Tr.params) :
                    /\ Tr.params[i].key = "BLOCKED_USERS"
                    /\ Unlisted(OwnerOf(Tr.oracle[1].reply), Tr.params[i].value)

\* C19 witness: an edge-switch event with two queries, for two different
\* addresses, while the BLOCKED_USERS list holds another owner
C19_Witness ==
    /\ Handled
    /\ ~IsCore
    /\ Len(Tr.oracle) = 2
    /\ Tr.oracle[1].ip # Tr.oracle[2].ip
    /\ \E bu \in ParamAt("BLOCKED_USERS") : bu # None /\ ListItems(bu[1]) # {<<>>}

\* ------------------------------------------------------------ C20
\* C20: no directed rule loops a frame back.  No command the controller
\* sends for an event has an output to the arrival port of its frame.  A
\* flow-mod with an output is the directed forwarding rule: priority 10,
\* match on the frame's source and destination MAC only, one output, the
\* port the table holds for the destination MAC, which is not the arrival
\* port.  A packet-out with an output floods, with the arrival port as its
\* in_port, which a flood leaves out.  For a frame addressed to its own
\* source MAC no command has an output at all.
C20_NoOutputToArrivalPort ==
    Handled =>
        /\ \A k \in 1..Len(Tr.sent) :
              LET m == Tr.sent[k] IN
              /\ \A a \in 1..Len(m.actions) : m.actions[a] # Ev.port
              /\ (IsFlowMod(m) /\ m.actions # <<>>) =>
                    /\ m.priority = 10
                    /\ m.match = [dl_src |-> Pkt.src, dl_dst |-> Pkt.dst]
                    /\ Pkt.dst \in DOMAIN Table
                    /\ m.actions = << Table[Pkt.dst] >>
                    /\ Table[Pkt.dst] # Ev.port
              /\ (~IsFlowMod(m) /\ m.actions # <<>>) =>
                    /\ m.actions = << OFPP_FLOOD >>
                    /\ m.in_port = Ev.port
        /\ Pkt.src = Pkt.dst =>
              \A k \in 1..Len(Tr.sent) : Tr.sent[k].actions = <<>>

\* C20 witness: a directed forwarding rule installed for a frame whose
\* destination MAC was learned on another port than the one it arrived on
C20_Witness ==
    /\ Handled
    /\ Pkt.dst \in DOMAIN Table
    /\ Table[Pkt.dst] # Ev.port
    /\ Table[Pkt.src] = Ev.port
    /\ Forwarded

\* ------------------------------------------------------------ C16
\* the frame the dataplane has just handled has an IPv4 source address that
\* resolves to an owner in BLOCKED_USERS
DeliveredFromBlockedOwner ==
    /\ delivered # None
    /\ delivered[1].parsed.ipv4 # None
    /\ Found(delivered[1].reply)
    /\ Listed(OwnerOf(delivered[1].reply), delivered[1].blocked_users)

\* C16 as stated: on an edge switch no frame whose IPv4 source resolves to
\* an owner in BLOCKED_USERS is forwarded or flooded: not by a command of
\* the controller for its event, and not by the switch applying a flow
\* entry installed earlier.
C16_AsStated ==
    /\ (/\ Handled /\ ~IsCore /\ HasIp /\ Tr.raised = "none"
        /\ \E r \in SrcReplies, bu \in ParamAt("BLOCKED_USERS") :
              Found(r) /\ Listed(OwnerOf(r), bu))
          => \A k \in 1..Len(Tr.sent) : Tr.sent[k].actions = <<>>
    /\ DeliveredFromBlockedOwner => delivered[1].out = {}

====
